---- MODULE Spec2Model ----
(***************************************************************************)
(* Model of the municipality traffic pipeline of                           *)
(* src/others/fetch_all_muni_traffic.py (the batch script) together with   *)
(* the strict containment test of src/others/test02.py.                    *)
(*                                                                         *)
(* Strings the code inspects character by character (column names, code    *)
(* values) are sequences of one-character strings.  A character outside    *)
(* ASCII is written as its code point, e.g. "U+5E02".                      *)
(* Coordinates are in quarters of a degree (0.5 is 2), times in tenths of  *)
(* a second (0.5 s is 5).                                                  *)
(***************************************************************************)
EXTENDS Integers, Sequences, FiniteSets, TLC

VARIABLES
    gpkgState,   \* the boundary file on disk: "missing", "corrupt" or "ok"
    gdf,         \* the frame gpd.read_file returns for it
    pc,          \* position of main()
    exc,         \* what ended the run ("none" while it runs or after [done])
    code_col,    \* main's code_col: index of the resolved column, 0 before
    idx,         \* number of rows the for loop has taken from gdf.iterrows()
    muni_code,   \* main's muni_code
    i,           \* request_api's loop variable
    attempts,    \* requests.get calls issued by the current request_api call
    warnings,    \* logging.warning events of the current request_api call
    delays,      \* backoff sleeps of the current request_api call
    data,        \* main's data: the parsed response, or None
    results,     \* main's results list
    requests,    \* requests.get calls issued since the start of the run
    slept,       \* time slept since the last requests.get call
    munistate,   \* orchestration state of every row
    params,      \* main's params: the bounding box of the query
    outFile,     \* the output CSV on disk
    log,         \* the events written through logging, oldest first
    errmsg,      \* the columns listed in detect_code_column's KeyError
    pc2,         \* position of test02.py's main ("off" when it is not run)
    code_col2,   \* test02.py's code_col: index of the column, 0 before
    errmsg2      \* the columns listed in the KeyError of test02.py

vars == <<gpkgState, gdf, pc, exc, code_col, idx, muni_code, i, attempts,
          warnings, delays, data, results, requests, slept, munistate, params,
          outFile, log, errmsg, pc2, code_col2, errmsg2>>

----------------------------------------------------------------------------
(* Bounds and program constants *)

MaxMuni == 3

MAX_RETRY == 3

SLEEP_SEC == 5

TIMECODE == "202505130900"

----------------------------------------------------------------------------
(* Characters and strings *)

UpperChars == <<"A","B","C","D","E","F","G","H","I","J","K","L","M",
                "N","O","P","Q","R","S","T","U","V","W","X","Y","Z">>

LowerChars == <<"a","b","c","d","e","f","g","h","i","j","k","l","m",
                "n","o","p","q","r","s","t","u","v","w","x","y","z">>

DigitChars == {"0","1","2","3","4","5","6","7","8","9"}

LowerChar(c) ==
    IF \E k \in 1..26 : UpperChars[k] = c
    THEN LowerChars[CHOOSE k \in 1..26 : UpperChars[k] = c]
    ELSE c

\* lower leaving the string as it is
asis(s) == s

\* str.lower()
lower(s) == [k \in 1..Len(s) |-> LowerChar(s[k])]

\* sub in s
Contains(sub, s) ==
    \E k \in 0..(Len(s) - Len(sub)) : SubSeq(s, k + 1, k + Len(sub)) = sub

\* str.isdigit()
isdigit(s) == Len(s) > 0 /\ \A k \in 1..Len(s) : s[k] \in DigitChars

\* x in list
InSeq(x, seq) == \E k \in 1..Len(seq) : seq[k] = x

----------------------------------------------------------------------------
(* Column names *)

JCODE == <<"J","C","O","D","E">>

KEY_CODE == <<"K","E","Y","_","C","O","D","E">>

area_code == <<"a","r","e","a","_","c","o","d","e">>

CITYCODE == <<"C","I","T","Y","C","O","D","E">>

CITY_CODE == <<"C","I","T","Y","_","C","O","D","E">>

N03_007 == <<"N","0","3","_","0","0","7">>

\* the Japanese name of the municipality code column (7 characters)
ShikuchosonCode == <<"U+5E02","U+533A","U+753A","U+6751","U+30B3","U+30FC","U+30C9">>

code == <<"c","o","d","e">>

xyz_code == <<"x","y","z","_","c","o","d","e">>

name == <<"n","a","m","e">>

value == <<"v","a","l","u","e">>

geometry == <<"g","e","o","m","e","t","r","y">>

priority ==
    <<JCODE, KEY_CODE, area_code, CITYCODE, CITY_CODE, N03_007,
      ShikuchosonCode, code>>

----------------------------------------------------------------------------
(* Geometry *)

\* the square [(0,0),(0,1),(1,1),(1,0)]
Square == << <<0,0>>, <<0,4>>, <<4,4>>, <<4,0>> >>

\* the triangle [(0,0),(0,1),(1,0)]: half of the square's bounding box
Triangle == << <<0,0>>, <<0,4>>, <<4,0>> >>

SetMin(S) == CHOOSE m \in S : \A n \in S : m <= n

SetMax(S) == CHOOSE m \in S : \A n \in S : n <= m

\* geometry.bounds: (xmin, ymin, xmax, ymax)
bounds(poly) ==
    LET xs == {poly[k][1] : k \in 1..Len(poly)}
        ys == {poly[k][2] : k \in 1..Len(poly)}
    IN  <<SetMin(xs), SetMin(ys), SetMax(xs), SetMax(ys)>>

Cross(a, b, p) ==
    (b[1] - a[1]) * (p[2] - a[2]) - (b[2] - a[2]) * (p[1] - a[1])

\* Point.within(poly) for a convex polygon: the point is in the interior,
\* a point of the boundary is not within.
within(p, poly) ==
    LET n == Len(poly)
        side(k) == Cross(poly[k], poly[(k % n) + 1], p)
    IN  \/ \A k \in 1..n : side(k) > 0
        \/ \A k \in 1..n : side(k) < 0

----------------------------------------------------------------------------
(* The boundary dataset *)

NaN == <<"NaN">>

\* municipality codes of the rows, in row order
MuniCodes ==
    << <<"0","1","1","0","1">>, <<"0","1","1","0","2">>,
       <<"1","3","1","0","1">>, <<"1","3","1","0","2">>,
       <<"2","7","1","0","0">> >>

\* four-digit values: not municipality codes
ShortCodes ==
    << <<"1","1","0","1">>, <<"1","1","0","2">>, <<"3","1","0","1">>,
       <<"3","1","0","2">>, <<"7","1","0","0">> >>

PolyOf(r) == IF r % 2 = 1 THEN Square ELSE Triangle

\* a frame of n rows with two attribute columns and the geometry column
Frame(cols, firstVals, n) ==
    [columns |-> cols \o <<geometry>>,
     rows    |-> [r \in 1..n |->
                    [vals |-> <<firstVals[r], <<"x">> >>,
                     geometry |-> PolyOf(r)]]]

Frames ==
    UNION {{Frame(<<JCODE, name>>, MuniCodes, n),
            Frame(<<xyz_code, name>>, MuniCodes, n),
            Frame(<<xyz_code, name>>, ShortCodes, n),
            Frame(<<name, value>>, MuniCodes, n)} : n \in 0..MaxMuni}

\* gdf[col].dropna(): the non-null values of attribute column j, in row order
RECURSIVE DropNaFrom(_, _, _)
DropNaFrom(g, j, r) ==
    IF r > Len(g.rows) THEN <<>>
    ELSE IF g.rows[r].vals[j] # NaN
         THEN <<g.rows[r].vals[j]>> \o DropNaFrom(g, j, r + 1)
         ELSE DropNaFrom(g, j, r + 1)

dropna(g, j) == DropNaFrom(g, j, 1)

ColIndex(g, col) == CHOOSE j \in 1..Len(g.columns) : g.columns[j] = col

----------------------------------------------------------------------------
(* detect_code_column *)

\* ScanPriority walking the columns instead of the priority list
RECURSIVE ScanColumnsFirst(_, _)
ScanColumnsFirst(g, k) ==
    IF k > Len(g.columns) THEN 0
    ELSE IF InSeq(g.columns[k], priority) THEN k
    ELSE ScanColumnsFirst(g, k + 1)

\* for col in priority: if col in gdf.columns: return col
RECURSIVE ScanPriority(_, _)
ScanPriority(g, k) ==
    IF k > Len(priority) THEN 0
    ELSE IF InSeq(priority[k], g.columns) THEN ColIndex(g, priority[k])
    ELSE ScanPriority(g, k + 1)

\* the test of the fallback loop on column number j; an empty column raises
\* IndexError at iloc[0], which the loop passes over
FallbackAccepts(g, j) ==
    /\ Contains(code, lower(g.columns[j]))
    /\ Len(dropna(g, j)) > 0
    /\ LET sample == dropna(g, j)[1]
       IN  isdigit(sample) /\ 5 <= Len(sample) /\ Len(sample) <= 6

\* for col in gdf.columns: ...
RECURSIVE ScanFallback(_, _)
ScanFallback(g, j) ==
    IF j > Len(g.columns) THEN 0
    ELSE IF FallbackAccepts(g, j) THEN j
    ELSE ScanFallback(g, j + 1)

\* the number of the column returned, 0 when KeyError is raised
detect_code_column(g) ==
    IF ScanPriority(g, 1) # 0 THEN ScanPriority(g, 1) ELSE ScanFallback(g, 1)

\* test02.py: the priority list of its detect_code_column
priority02 ==
    <<JCODE, KEY_CODE, CITYCODE, CITY_CODE, N03_007, area_code,
      ShikuchosonCode, code>>

RECURSIVE ScanPriority02(_, _)
ScanPriority02(g, k) ==
    IF k > Len(priority02) THEN 0
    ELSE IF InSeq(priority02[k], g.columns) THEN ColIndex(g, priority02[k])
    ELSE ScanPriority02(g, k + 1)

\* test02.py: detect_code_column; its fallback loop is the batch script's
detect_code_column02(g) ==
    IF ScanPriority02(g, 1) # 0 THEN ScanPriority02(g, 1) ELSE ScanFallback(g, 1)

----------------------------------------------------------------------------
(* Features and calc_volume *)

\* the six measurement keys: up/down x small, large, unclassified
keys == <<"up_small", "up_large", "up_unknown",
          "down_small", "down_large", "down_unknown">>

\* A feature: its point, whether it has a "properties" member, the integer
\* members of properties, and the keys whose member is JSON null.
Feature(pt, hasProps, props, nulls) ==
    [geometry |-> pt, hasProps |-> hasProps, properties |-> props, nulls |-> nulls]

FeatIn == Feature(<<2,2>>, TRUE, [k \in {"up_small", "down_large"} |->
                                    IF k = "up_small" THEN 4 ELSE 6], {})

FeatEdge == Feature(<<0,2>>, TRUE, [k \in {"up_small"} |-> 20], {})

FeatOut == Feature(<<8,8>>, TRUE, [k \in {"down_unknown"} |-> 30], {})

FeatCorner == Feature(<<3,3>>, TRUE, [k \in {"up_large"} |-> 7], {})

FeatNull == Feature(<<1,1>>, TRUE, [k \in {"up_small"} |-> 5], {"up_large"})

FeatNoProps == Feature(<<1,1>>, FALSE, [k \in {} |-> 0], {})

\* a parsed body: a JSON object, with or without a "features" member
Body(hasFeatures, feats) ==
    [isNone |-> FALSE, hasFeatures |-> hasFeatures, features |-> feats]

None == [isNone |-> TRUE, hasFeatures |-> FALSE, features |-> <<>>]

\* bodies the service answers with
Responses ==
    { Body(FALSE, <<>>),
      Body(TRUE, <<>>),
      Body(TRUE, <<FeatIn>>),
      Body(TRUE, <<FeatIn, FeatEdge, FeatOut>>),
      Body(TRUE, <<FeatCorner, FeatIn>>),
      Body(TRUE, <<FeatIn, FeatNull>>),
      Body(TRUE, <<FeatNoProps>>) }

\* what makes requests.get / raise_for_status / r.json() raise
FailKinds == {"ConnectionError", "HTTPError", "JSONDecodeError"}

\* props.get(k, 0)
get(props, k) == IF k \in DOMAIN props THEN props[k] ELSE 0

\* int(None) raises TypeError
CalcRaises(feat) == \E k \in 1..Len(keys) : keys[k] \in feat.nulls

RECURSIVE SumKeys(_, _)
SumKeys(props, k) ==
    IF k > Len(keys) THEN 0 ELSE get(props, keys[k]) + SumKeys(props, k + 1)

calc_volume(feat) == SumKeys(feat.properties, 1)

\* TotalFrom with "total = ..." in place of "total += ..."
TotalLast(feats, k) ==
    IF Len(feats) = 0 THEN 0 ELSE calc_volume(feats[Len(feats)])

\* total after the loop over data["features"]
RECURSIVE TotalFrom(_, _)
TotalFrom(feats, k) ==
    IF k > Len(feats) THEN 0 ELSE calc_volume(feats[k]) + TotalFrom(feats, k + 1)

\* the loop raises: KeyError at feat["properties"], TypeError in calc_volume
LoopRaises(feats) ==
    \E k \in 1..Len(feats) : ~feats[k].hasProps \/ CalcRaises(feats[k])

FirstRaise(feats) ==
    LET k == CHOOSE k \in 1..Len(feats) :
                /\ ~feats[k].hasProps \/ CalcRaises(feats[k])
                /\ \A m \in 1..(k - 1) : feats[m].hasProps /\ ~CalcRaises(feats[m])
    IN  IF ~feats[k].hasProps THEN "KeyError" ELSE "TypeError"

\* not data or not data.get("features")
NoData(d) == d.isNone \/ ~d.hasFeatures \/ Len(d.features) = 0

----------------------------------------------------------------------------
(* The run *)

Absent == [exists |-> FALSE, header |-> FALSE, rows |-> <<>>]

Running == {"start", "read", "detect", "loop", "get", "backoff", "sleep",
            "aggregate", "open", "header", "body"}

Init ==
    /\ gpkgState \in {"missing", "corrupt", "ok"}
    /\ gdf \in Frames
    /\ pc = "start"
    /\ exc = "none"
    /\ code_col = 0
    /\ idx = 0
    /\ muni_code = <<>>
    /\ i = 0
    /\ attempts = 0
    /\ warnings = 0
    /\ delays = 0
    /\ data = None
    /\ results = <<>>
    /\ requests = 0
    /\ slept = 0
    /\ munistate = [r \in 1..Len(gdf.rows) |-> "Pending"]
    /\ params = <<>>
    /\ outFile = Absent
    /\ log = <<>>
    /\ errmsg = <<>>
    /\ pc2 = "off"
    /\ code_col2 = 0
    /\ errmsg2 = <<>>

\* A logging event: its level, which message it is, the number the message
\* text shows and the municipality code it shows (no message of the script
\* shows one).  The exception text of a retry message is left out.
Event(level, msg, n) ==
    [level |-> level, msg |-> msg, n |-> n, muni |-> <<>>]

\* sys.exit / an exception reaching the handlers of __main__
Exit(e) == pc' = "exited" /\ exc' = e

\* if not GPKG_PATH.exists(): sys.exit(...)
CheckExists ==
    /\ pc = "start"
    /\ IF gpkgState = "missing" THEN Exit("SystemExit:missing")
       ELSE pc' = "read" /\ exc' = exc
    /\ UNCHANGED <<gpkgState, gdf, code_col, idx, muni_code, i, attempts,
                   warnings, delays, data, results, requests, slept,
                   munistate, params, outFile>>
    /\ UNCHANGED <<log, errmsg, pc2, code_col2, errmsg2>>

\* gdf = gpd.read_file(GPKG_PATH, layer=LAYER)
ReadFile ==
    /\ pc = "read"
    /\ IF gpkgState = "corrupt" THEN Exit("ERROR:read_file")
       ELSE pc' = "detect" /\ exc' = exc
    /\ UNCHANGED <<gpkgState, gdf, code_col, idx, muni_code, i, attempts,
                   warnings, delays, data, results, requests, slept,
                   munistate, params, outFile>>
    /\ UNCHANGED <<log, errmsg, pc2, code_col2, errmsg2>>

\* Detect with the check of the result deferred until after the first fetch
DetectDeferred ==
    \/ /\ pc = "detect"
       /\ pc' = "loop"
       /\ exc' = exc
       /\ code_col' = IF detect_code_column(gdf) = 0 THEN 1
                      ELSE detect_code_column(gdf)
       /\ UNCHANGED <<gpkgState, gdf, idx, muni_code, i, attempts,
                      warnings, delays, data, results, requests, slept,
                      munistate, params, outFile>>
       /\ UNCHANGED <<log, errmsg, pc2, code_col2, errmsg2>>
    \/ /\ pc = "sleep"
       /\ detect_code_column(gdf) = 0
       /\ Exit("ERROR:KeyError:code_col")
       /\ UNCHANGED <<gpkgState, gdf, code_col, idx, muni_code, i, attempts,
                      warnings, delays, data, results, requests, slept,
                      munistate, params, outFile>>
       /\ UNCHANGED <<log, errmsg, pc2, code_col2, errmsg2>>

\* Detect with a KeyError that lists the candidate names, not the columns
DetectListsCandidates ==
    /\ pc = "detect"
    /\ IF detect_code_column(gdf) = 0
       THEN /\ Exit("ERROR:KeyError:code_col")
            /\ code_col' = code_col
            /\ errmsg' = priority
            /\ log' = log
       ELSE /\ pc' = "loop"
            /\ exc' = exc
            /\ code_col' = detect_code_column(gdf)
            /\ errmsg' = errmsg
            /\ log' = Append(log, Event("INFO", "count", Len(gdf.rows)))
    /\ UNCHANGED <<gpkgState, gdf, idx, muni_code, i, attempts,
                   warnings, delays, data, results, requests, slept,
                   munistate, params, outFile>>
    /\ UNCHANGED <<pc2, code_col2, errmsg2>>

\* code_col = detect_code_column(gdf)
Detect ==
    /\ pc = "detect"
    /\ IF detect_code_column(gdf) = 0
       THEN /\ Exit("ERROR:KeyError:code_col")
            /\ code_col' = code_col
            /\ errmsg' = gdf.columns
            /\ log' = log
       ELSE /\ pc' = "loop"
            /\ exc' = exc
            /\ code_col' = detect_code_column(gdf)
            /\ errmsg' = errmsg
            /\ log' = Append(log, Event("INFO", "count", Len(gdf.rows)))
    /\ UNCHANGED <<gpkgState, gdf, idx, muni_code, i, attempts,
                   warnings, delays, data, results, requests, slept,
                   munistate, params, outFile>>
    /\ UNCHANGED <<pc2, code_col2, errmsg2>>

\* for _, row in gdf.iterrows(): muni_code, bbox, params; request_api enters
\* its loop with i = 1
LoopNext ==
    /\ pc = "loop"
    /\ idx < Len(gdf.rows)
    /\ idx' = idx + 1
    /\ muni_code' = gdf.rows[idx + 1].vals[code_col]
    /\ params' = bounds(gdf.rows[idx + 1].geometry)
    /\ munistate' = [munistate EXCEPT ![idx + 1] = "Fetching"]
    /\ i' = 1
    /\ attempts' = 0
    /\ warnings' = 0
    /\ delays' = 0
    /\ pc' = "get"
    /\ UNCHANGED <<gpkgState, gdf, exc, code_col, data, results, requests,
                   slept, outFile>>
    /\ UNCHANGED <<log, errmsg, pc2, code_col2, errmsg2>>

\* LoopEnd without the test of results
LoopEndNoTest ==
    /\ pc = "loop"
    /\ idx = Len(gdf.rows)
    /\ pc' = "open"
    /\ UNCHANGED <<gpkgState, gdf, exc, code_col, idx, muni_code, i, attempts,
                   warnings, delays, data, results, requests, slept,
                   munistate, params, outFile>>
    /\ UNCHANGED <<log, errmsg, pc2, code_col2, errmsg2>>

\* the loop is exhausted: if not results: sys.exit(...)
LoopEnd ==
    /\ pc = "loop"
    /\ idx = Len(gdf.rows)
    /\ IF results = <<>> THEN Exit("SystemExit:no_results")
       ELSE pc' = "open" /\ exc' = exc
    /\ UNCHANGED <<gpkgState, gdf, code_col, idx, muni_code, i, attempts,
                   warnings, delays, data, results, requests, slept,
                   munistate, params, outFile>>
    /\ UNCHANGED <<log, errmsg, pc2, code_col2, errmsg2>>

\* request_api: requests.get, raise_for_status and r.json() succeed;
\* main assigns data
RequestOk ==
    /\ pc = "get"
    /\ \E resp \in Responses : data' = resp
    /\ attempts' = attempts + 1
    /\ requests' = requests + 1
    /\ slept' = 0
    /\ pc' = "sleep"
    /\ UNCHANGED <<gpkgState, gdf, exc, code_col, idx, muni_code, i, warnings,
                   delays, results, munistate, params, outFile>>
    /\ UNCHANGED <<log, errmsg, pc2, code_col2, errmsg2>>

\* RequestFail logging the warning on the last attempt only
RequestFailQuiet ==
    /\ pc = "get"
    /\ \E e \in FailKinds :
        /\ attempts' = attempts + 1
        /\ requests' = requests + 1
        /\ slept' = 0
        /\ warnings' = IF i = MAX_RETRY THEN warnings + 1 ELSE warnings
        /\ log' = IF i = MAX_RETRY
                  THEN Append(log, Event("WARNING", "retry", i))
                  ELSE log
        /\ pc' = "backoff"
        /\ exc' = exc
    /\ UNCHANGED <<gpkgState, gdf, code_col, idx, muni_code, i, delays,
                   data, results, munistate, params, outFile>>
    /\ UNCHANGED <<errmsg, pc2, code_col2, errmsg2>>

\* request_api: one of them raises; except Exception logs the warning
RequestFail ==
    /\ pc = "get"
    /\ \E e \in FailKinds :
        /\ attempts' = attempts + 1
        /\ requests' = requests + 1
        /\ slept' = 0
        /\ warnings' = warnings + 1
        /\ log' = Append(log, Event("WARNING", "retry", i))
        /\ pc' = "backoff"
        /\ exc' = exc
    /\ UNCHANGED <<gpkgState, gdf, code_col, idx, muni_code, i, delays,
                   data, results, munistate, params, outFile>>
    /\ UNCHANGED <<errmsg, pc2, code_col2, errmsg2>>

\* Backoff with the loop running one attempt too many
BackoffOneMore ==
    /\ pc = "backoff"
    /\ slept' = slept + SLEEP_SEC * 2
    /\ delays' = delays + 1
    /\ IF i <= MAX_RETRY
       THEN i' = i + 1 /\ pc' = "get" /\ data' = data
       ELSE i' = i /\ pc' = "sleep" /\ data' = None
    /\ UNCHANGED <<gpkgState, gdf, exc, code_col, idx, muni_code, attempts,
                   warnings, results, requests, munistate, params, outFile>>
    /\ UNCHANGED <<log, errmsg, pc2, code_col2, errmsg2>>

\* request_api: time.sleep(SLEEP_SEC * 2), then the next attempt or return None
Backoff ==
    /\ pc = "backoff"
    /\ slept' = slept + SLEEP_SEC * 2
    /\ delays' = delays + 1
    /\ IF i < MAX_RETRY
       THEN i' = i + 1 /\ pc' = "get" /\ data' = data
       ELSE i' = i /\ pc' = "sleep" /\ data' = None
    /\ UNCHANGED <<gpkgState, gdf, exc, code_col, idx, muni_code, attempts,
                   warnings, results, requests, munistate, params, outFile>>
    /\ UNCHANGED <<log, errmsg, pc2, code_col2, errmsg2>>

\* PostSleep without the sleep
PostSleepNoSleep ==
    /\ pc = "sleep"
    /\ slept' = slept
    /\ IF NoData(data)
       THEN /\ pc' = "loop"
            /\ munistate' = [munistate EXCEPT ![idx] =
                    IF data.isNone THEN "SkippedFailure" ELSE "SkippedEmpty"]
       ELSE /\ pc' = "aggregate"
            /\ munistate' = [munistate EXCEPT ![idx] = "Joining"]
    /\ UNCHANGED <<gpkgState, gdf, exc, code_col, idx, muni_code, i, attempts,
                   warnings, delays, data, results, requests, params, outFile>>
    /\ UNCHANGED <<log, errmsg, pc2, code_col2, errmsg2>>

\* main: time.sleep(SLEEP_SEC); if not data or not data.get("features"): continue
PostSleep ==
    /\ pc = "sleep"
    /\ slept' = slept + SLEEP_SEC
    /\ IF NoData(data)
       THEN /\ pc' = "loop"
            /\ munistate' = [munistate EXCEPT ![idx] =
                    IF data.isNone THEN "SkippedFailure" ELSE "SkippedEmpty"]
       ELSE /\ pc' = "aggregate"
            /\ munistate' = [munistate EXCEPT ![idx] = "Joining"]
    /\ UNCHANGED <<gpkgState, gdf, exc, code_col, idx, muni_code, i, attempts,
                   warnings, delays, data, results, requests, params, outFile>>
    /\ UNCHANGED <<log, errmsg, pc2, code_col2, errmsg2>>

\* the record main appends
Record(mc, feats) ==
    [muni_code |-> mc, datetime |-> TIMECODE,
     traffic_volume |-> TotalFrom(feats, 1), points |-> Len(feats)]

\* Aggregate putting the record at the head of results
AggregatePrepend ==
    /\ pc = "aggregate"
    /\ IF LoopRaises(data.features)
       THEN /\ Exit("ERROR:" \o FirstRaise(data.features))
            /\ UNCHANGED <<results, munistate>>
       ELSE /\ results' = <<Record(muni_code, data.features)>> \o results
            /\ munistate' = [munistate EXCEPT ![idx] = "Aggregated"]
            /\ pc' = "loop"
            /\ exc' = exc
    /\ UNCHANGED <<gpkgState, gdf, code_col, idx, muni_code, i, attempts,
                   warnings, delays, data, requests, slept, params, outFile>>
    /\ UNCHANGED <<log, errmsg, pc2, code_col2, errmsg2>>

\* main: total over data["features"], results.append(...)
Aggregate ==
    /\ pc = "aggregate"
    /\ IF LoopRaises(data.features)
       THEN /\ Exit("ERROR:" \o FirstRaise(data.features))
            /\ UNCHANGED <<results, munistate>>
       ELSE /\ results' = Append(results, Record(muni_code, data.features))
            /\ munistate' = [munistate EXCEPT ![idx] = "Aggregated"]
            /\ pc' = "loop"
            /\ exc' = exc
    /\ UNCHANGED <<gpkgState, gdf, code_col, idx, muni_code, i, attempts,
                   warnings, delays, data, requests, slept, params, outFile>>
    /\ UNCHANGED <<log, errmsg, pc2, code_col2, errmsg2>>

\* df_out.to_csv(out_csv): the file is opened for writing (truncated)
ToCsvOpen ==
    /\ pc = "open"
    /\ outFile' = [exists |-> TRUE, header |-> FALSE, rows |-> <<>>]
    /\ pc' = "header"
    /\ UNCHANGED <<gpkgState, gdf, exc, code_col, idx, muni_code, i, attempts,
                   warnings, delays, data, results, requests, slept,
                   munistate, params>>
    /\ UNCHANGED <<log, errmsg, pc2, code_col2, errmsg2>>

\* to_csv writes the header line
ToCsvHeader ==
    /\ pc = "header"
    /\ outFile' = [outFile EXCEPT !.header = TRUE]
    /\ pc' = "body"
    /\ UNCHANGED <<gpkgState, gdf, exc, code_col, idx, muni_code, i, attempts,
                   warnings, delays, data, results, requests, slept,
                   munistate, params>>
    /\ UNCHANGED <<log, errmsg, pc2, code_col2, errmsg2>>

\* to_csv writes the rows and closes the file; [done] is logged
ToCsvBody ==
    /\ pc = "body"
    /\ outFile' = [outFile EXCEPT !.rows = results]
    /\ log' = Append(log, Event("INFO", "done", Len(results)))
    /\ pc' = "done"
    /\ UNCHANGED <<gpkgState, gdf, exc, code_col, idx, muni_code, i, attempts,
                   warnings, delays, data, results, requests, slept,
                   munistate, params>>
    /\ UNCHANGED <<errmsg, pc2, code_col2, errmsg2>>

\* KeyboardInterrupt while main runs: sys.exit("[cancel] ...")
Interrupt ==
    /\ pc \in Running
    /\ Exit("KeyboardInterrupt")
    /\ UNCHANGED <<gpkgState, gdf, code_col, idx, muni_code, i, attempts,
                   warnings, delays, data, results, requests, slept,
                   munistate, params, outFile>>
    /\ UNCHANGED <<log, errmsg, pc2, code_col2, errmsg2>>

Next ==
    \/ CheckExists
    \/ ReadFile
    \/ Detect
    \/ LoopNext
    \/ LoopEnd
    \/ RequestOk
    \/ RequestFail
    \/ Backoff
    \/ PostSleep
    \/ Aggregate
    \/ ToCsvOpen
    \/ ToCsvHeader
    \/ ToCsvBody
    \/ Interrupt

Spec == Init /\ [][Next]_vars

\* The interpreter keeps running main, and every request returns or raises.
LiveSpec == Spec /\ WF_vars(Next)

----------------------------------------------------------------------------
(* Column detection on a wider family of boundary datasets *)

MaxCols == 3

MUNI_CODE == <<"M","U","N","I","_","C","O","D","E">>

\* the cells of a column in a frame of two rows
V5 == <<MuniCodes[1], MuniCodes[2]>>

V4 == <<ShortCodes[1], ShortCodes[2]>>

V7 == << <<"0","1","1","0","1","0","0">>, <<"0","1","1","0","2","0","0">> >>

VAlpha == << <<"a","b","c","d","e">>, <<"1","3","1","0","1">> >>

VNaN == <<NaN, NaN>>

VNaN6 == <<NaN, <<"0","1","1","0","2","9">> >>

\* a column: its name and its cells
ColumnSpecs ==
    {[name |-> n, vals |-> V5] :
        n \in {JCODE, area_code, CITYCODE, code, name, value}}
    \cup {[name |-> xyz_code, vals |-> v] :
            v \in {V5, V4, V7, VAlpha, VNaN, VNaN6}}
    \cup {[name |-> MUNI_CODE, vals |-> v] : v \in {V5, V4}}

\* n columns with different names, in declaration order
ColSeqs(n) ==
    {s \in [1..n -> ColumnSpecs] :
        \A a, b \in 1..n : a < b => s[a].name # s[b].name}

DetectFrame(s) ==
    [columns |-> [j \in 1..Len(s) |-> s[j].name] \o <<geometry>>,
     rows    |-> [r \in 1..2 |->
                    [vals |-> [j \in 1..Len(s) |-> s[j].vals[r]],
                     geometry |-> PolyOf(r)]]]

DetectFrames == UNION {{DetectFrame(s) : s \in ColSeqs(n)} : n \in 0..MaxCols}

\* both scripts have read the boundary file and are about to detect
InitDetect ==
    /\ gpkgState = "ok"
    /\ gdf \in DetectFrames
    /\ pc = "detect"
    /\ exc = "none"
    /\ code_col = 0
    /\ idx = 0
    /\ muni_code = <<>>
    /\ i = 0
    /\ attempts = 0
    /\ warnings = 0
    /\ delays = 0
    /\ data = None
    /\ results = <<>>
    /\ requests = 0
    /\ slept = 0
    /\ munistate = [r \in 1..Len(gdf.rows) |-> "Pending"]
    /\ params = <<>>
    /\ outFile = Absent
    /\ log = <<>>
    /\ errmsg = <<>>
    /\ pc2 = "detect"
    /\ code_col2 = 0
    /\ errmsg2 = <<>>

\* test02.py main: code_col = detect_code_column(muni_all); a KeyError is
\* printed by the handler of __main__
Test02Detect ==
    /\ pc2 = "detect"
    /\ code_col2' = detect_code_column02(gdf)
    /\ IF detect_code_column02(gdf) = 0
       THEN pc2' = "exited" /\ errmsg2' = gdf.columns
       ELSE pc2' = "select" /\ errmsg2' = errmsg2
    /\ UNCHANGED <<gpkgState, gdf, pc, exc, code_col, idx, muni_code, i,
                   attempts, warnings, delays, data, results, requests, slept,
                   munistate, params, outFile, log, errmsg>>

NextDetect ==
    \/ Detect
    \/ Test02Detect

SpecDetect == InitDetect /\ [][NextDetect]_vars

----------------------------------------------------------------------------
(* The aggregation on a wider family of responses *)

MaxPoints == 3

\* a feature with all six measurements
FeatFull ==
    Feature(<<1,2>>, TRUE,
            [k \in {"up_small", "up_large", "up_unknown",
                    "down_small", "down_large", "down_unknown"} |->
                CASE k = "up_small" -> 1 [] k = "up_large" -> 2
                  [] k = "up_unknown" -> 3 [] k = "down_small" -> 4
                  [] k = "down_large" -> 5 [] OTHER -> 6],
            {})

FeatUniverse ==
    {FeatIn, FeatEdge, FeatOut, FeatCorner, FeatFull, FeatNull, FeatNoProps}

FeatureSeqs == UNION {[1..n -> FeatUniverse] : n \in 0..MaxPoints}

\* the first request of a run over one municipality has just returned a body
InitAgg ==
    /\ gpkgState = "ok"
    /\ gdf = Frame(<<JCODE, name>>, MuniCodes, 1)
    /\ pc = "sleep"
    /\ exc = "none"
    /\ code_col = 1
    /\ idx = 1
    /\ muni_code = MuniCodes[1]
    /\ i = 1
    /\ attempts = 1
    /\ warnings = 0
    /\ delays = 0
    /\ \E feats \in FeatureSeqs : data = Body(TRUE, feats)
    /\ results = <<>>
    /\ requests = 1
    /\ slept = 0
    /\ munistate = <<"Fetching">>
    /\ params = bounds(Square)
    /\ outFile = Absent
    /\ log = <<Event("INFO", "count", 1)>>
    /\ errmsg = <<>>
    /\ pc2 = "off"
    /\ code_col2 = 0
    /\ errmsg2 = <<>>

NextAgg ==
    \/ PostSleep
    \/ Aggregate

SpecAgg == InitAgg /\ [][NextAgg]_vars

----------------------------------------------------------------------------
(* Properties *)

\* SpatialJoinEngine.filterWithin: the features strictly inside poly
RECURSIVE filterWithin(_, _, _)
filterWithin(feats, poly, k) ==
    IF k > Len(feats) THEN <<>>
    ELSE IF within(feats[k].geometry, poly)
         THEN <<feats[k]>> \o filterWithin(feats, poly, k + 1)
         ELSE filterWithin(feats, poly, k + 1)

Terminal == {"Aggregated", "SkippedEmpty", "SkippedFailure"}

Skipped == {"SkippedEmpty", "SkippedFailure"}

DatasetFailures ==
    {"SystemExit:missing", "ERROR:read_file", "ERROR:KeyError:code_col"}

\* the row a record of results comes from
RowOf(rec) ==
    CHOOSE r \in 1..Len(gdf.rows) : gdf.rows[r].vals[code_col] = rec.muni_code

\* the number of records of results that come from row r
Records(r) ==
    Cardinality({k \in 1..Len(results) :
                    results[k].muni_code = gdf.rows[r].vals[code_col]})

\* C1: every record appended by main counts and sums only the fetched points
\* strictly inside the polygon of its municipality (for the unit square and
\* points inside, on the edge and outside with sums 10, 20, 30: volume 10,
\* 1 point).
C1_OnlyInteriorPoints ==
    (pc = "loop" /\ idx >= 1 /\ munistate[idx] = "Aggregated") =>
        LET inside == filterWithin(data.features, gdf.rows[idx].geometry, 1)
            last   == results[Len(results)]
        IN  /\ last.points = Len(inside)
            /\ last.traffic_volume = TotalFrom(inside, 1)

\* C2: when request_api returns a parsed response after k failed attempts
\* (k < MAX_RETRY), it has issued exactly k+1 requests, logged exactly k
\* warnings and slept exactly k backoff delays.
C2_RetryThenSuccess ==
    (pc = "sleep" /\ ~data.isNone) =>
        /\ attempts = i
        /\ attempts <= MAX_RETRY
        /\ warnings = attempts - 1
        /\ delays = attempts - 1

C2_Witness ==
    pc = "sleep" /\ ~data.isNone /\ attempts = 3 /\ warnings = 2 /\ delays = 2

\* C3: request_api never issues more than MAX_RETRY requests; when every
\* attempt fails it returns None after exactly MAX_RETRY attempts, and the
\* failure of a request never ends the run.
C3_AlwaysFailReturnsNone ==
    /\ attempts <= MAX_RETRY
    /\ (pc = "sleep" /\ data.isNone) =>
            attempts = MAX_RETRY /\ warnings = MAX_RETRY /\ delays = MAX_RETRY
    /\ (pc = "exited" /\ idx >= 1 /\ munistate[idx] = "Fetching") =>
            exc = "KeyboardInterrupt"

C3_Witness ==
    pc = "sleep" /\ data.isNone /\ attempts = MAX_RETRY /\ requests = MAX_RETRY

\* the dataset is loaded, every row has been taken and each fetch was
\* exhausted or had no features
AllSkipped ==
    /\ code_col # 0
    /\ idx = Len(gdf.rows)
    /\ \A r \in 1..Len(gdf.rows) : munistate[r] \in Skipped

\* C4: when every municipality's fetch is exhausted or returns no feature,
\* the run produces no row and no file, and it ends with the exit for zero
\* results (unless it is interrupted before that).
C4_PipelineExhausted ==
    AllSkipped =>
        /\ results = <<>>
        /\ outFile = Absent
        /\ pc \in {"loop", "exited"}
        /\ pc = "exited" => exc \in {"SystemExit:no_results", "KeyboardInterrupt"}

C4_Witness ==
    /\ AllSkipped
    /\ exc = "SystemExit:no_results"
    /\ \E r \in 1..Len(gdf.rows) : munistate[r] = "SkippedEmpty"
    /\ \E r \in 1..Len(gdf.rows) : munistate[r] = "SkippedFailure"

\* C5: a fault of one municipality (fetch exhausted, empty or malformed
\* response) never ends the run: a run that exits does so for a dataset-level
\* failure, for zero results at the end, or because it was interrupted.
C5_FaultsNeverAbort ==
    pc = "exited" =>
        exc \in DatasetFailures \cup {"SystemExit:no_results", "KeyboardInterrupt"}

\* C6: results is a subsequence of the rows of the boundary dataset: its
\* records come from rows already taken, in increasing row order.
C6_ResultsInInputOrder ==
    /\ \A k \in 1..Len(results) : RowOf(results[k]) <= idx
    /\ \A a, b \in 1..Len(results) :
            a < b => RowOf(results[a]) < RowOf(results[b])

C6_Witness ==
    /\ Len(results) = 2
    /\ munistate[2] \in Skipped
    /\ RowOf(results[1]) = 1
    /\ RowOf(results[2]) = 3

\* C7: when the run is over (not interrupted, the dataset loaded), every row
\* is in exactly one terminal state, and it has one record if that state is
\* Aggregated and none otherwise.
C7_OneTerminalStatePerRow ==
    (pc \in {"done", "exited"} /\ code_col # 0 /\ exc # "KeyboardInterrupt") =>
        \A r \in 1..Len(gdf.rows) :
            /\ munistate[r] \in Terminal
            /\ Records(r) = IF munistate[r] = "Aggregated" THEN 1 ELSE 0

\* C8: a request that is not the first of the run is issued only after a
\* sleep of at least SLEEP_SEC since the request before it.
C8_SleepBetweenRequests ==
    [][(requests' = requests + 1 /\ requests > 0) => slept >= SLEEP_SEC]_vars

C8_Witness ==
    requests >= 3 /\ idx = 2 /\ attempts = 2 /\ pc = "sleep"

\* C9: after an interrupt the output file is absent or empty, or it holds
\* the header and every record of results.
C9_AllOrNothing ==
    exc = "KeyboardInterrupt" =>
        \/ outFile = Absent
        \/ outFile = [exists |-> TRUE, header |-> FALSE, rows |-> <<>>]
        \/ outFile = [exists |-> TRUE, header |-> TRUE, rows |-> results]

\* C10: a run that ended for a missing or unreadable boundary dataset, or for
\* an unresolved identifier column, has issued no request, taken no row and
\* written no output.
C10_DatasetFailureBeforeFetch ==
    exc \in DatasetFailures =>
        requests = 0 /\ idx = 0 /\ results = <<>> /\ outFile = Absent

C10_Witness ==
    /\ exc = "ERROR:KeyError:code_col"
    /\ Len(gdf.rows) >= 1
    /\ gpkgState = "ok"

\* the places of the priority list whose name is a column of g
PresentIn(list, g) == {k \in 1..Len(list) : InSeq(list[k], g.columns)}

\* C11: when a name of the priority list is a column of the dataset,
\* detect_code_column returns the present name that comes first in the
\* priority list, whatever the order of the columns and whatever fallback
\* candidates are declared before it (each script with its own list).
C11_FirstPresentPriorityName ==
    /\ (pc # "detect" /\ PresentIn(priority, gdf) # {}) =>
            /\ pc = "loop"
            /\ gdf.columns[code_col] = priority[SetMin(PresentIn(priority, gdf))]
    /\ (pc2 # "detect" /\ PresentIn(priority02, gdf) # {}) =>
            /\ pc2 = "select"
            /\ gdf.columns[code_col2] = priority02[SetMin(PresentIn(priority02, gdf))]

C11_Witness ==
    /\ pc = "loop"
    /\ gdf.columns = <<xyz_code, area_code, JCODE, geometry>>
    /\ FallbackAccepts(gdf, 1)
    /\ code_col = 3

\* "code" is in the name, in any mix of upper and lower case
HasCodeAnyCase(s) ==
    \E k \in 1..(Len(s) - 3) :
        /\ s[k] \in {"c", "C"}
        /\ s[k + 1] \in {"o", "O"}
        /\ s[k + 2] \in {"d", "D"}
        /\ s[k + 3] \in {"e", "E"}

\* the rows whose cell in attribute column j is not null
NonNullRows(g, j) == {r \in 1..Len(g.rows) : g.rows[r].vals[j] # NaN}

\* column j is a fallback candidate: "code" in its name, and its first
\* non-null cell a string of 5 or 6 digits
Qualifies(g, j) ==
    /\ HasCodeAnyCase(g.columns[j])
    /\ NonNullRows(g, j) # {}
    /\ LET v == g.rows[SetMin(NonNullRows(g, j))].vals[j]
       IN  /\ Len(v) \in {5, 6}
           /\ \A k \in 1..Len(v) : v[k] \in DigitChars

QualifyingColumns(g) == {j \in 1..Len(g.columns) : Qualifies(g, j)}

\* C12: when no priority name is a column, detect_code_column returns the
\* first column in declaration order that contains "code" in any case and
\* whose first non-null value has 5 or 6 digits; other columns containing
\* "code" are passed over, and with no such column the only outcome is the
\* column-not-found KeyError.
C12_FallbackFirstQualifying ==
    /\ (pc # "detect" /\ PresentIn(priority, gdf) = {}) =>
            IF QualifyingColumns(gdf) = {}
            THEN pc = "exited" /\ exc = "ERROR:KeyError:code_col"
            ELSE pc = "loop" /\ code_col = SetMin(QualifyingColumns(gdf))
    /\ (pc2 # "detect" /\ PresentIn(priority02, gdf) = {}) =>
            IF QualifyingColumns(gdf) = {}
            THEN pc2 = "exited"
            ELSE pc2 = "select" /\ code_col2 = SetMin(QualifyingColumns(gdf))

C12_Witness ==
    /\ pc = "loop"
    /\ gdf.columns = <<xyz_code, MUNI_CODE, name, geometry>>
    /\ ~Qualifies(gdf, 1)
    /\ code_col = 2

\* C13: detect_code_column raises the column-not-found KeyError exactly when
\* no priority name is a column and no column is a fallback candidate; the
\* message then lists every column of the dataset; a column it returns is a
\* column of the dataset.
C13_NotFoundListsColumns ==
    /\ pc # "detect" =>
        /\ (pc = "exited" /\ exc = "ERROR:KeyError:code_col") <=>
                (PresentIn(priority, gdf) = {} /\ QualifyingColumns(gdf) = {})
        /\ pc = "exited" =>
                \A j \in 1..Len(gdf.columns) : InSeq(gdf.columns[j], errmsg)
        /\ pc = "loop" => code_col \in 1..Len(gdf.columns)
    /\ pc2 # "detect" =>
        /\ pc2 = "exited" <=>
                (PresentIn(priority02, gdf) = {} /\ QualifyingColumns(gdf) = {})
        /\ pc2 = "exited" =>
                \A j \in 1..Len(gdf.columns) : InSeq(gdf.columns[j], errmsg2)
        /\ pc2 = "select" => code_col2 \in 1..Len(gdf.columns)

C13_Witness ==
    /\ pc = "exited"
    /\ gdf.columns = <<name, value, geometry>>
    /\ InSeq(name, errmsg)
    /\ InSeq(value, errmsg)

\* C18: once both scripts have run detect_code_column on the same dataset,
\* they hold the same column, or both have failed.
C18_SameColumn ==
    (pc # "detect" /\ pc2 # "detect") => code_col = code_col2

\* one measurement of a feature, a missing or null one counting as zero
Measurement(feat, k) ==
    IF feat.hasProps /\ k \in DOMAIN feat.properties /\ k \notin feat.nulls
    THEN feat.properties[k]
    ELSE 0

SixCategories(feat) ==
    Measurement(feat, "up_small") + Measurement(feat, "up_large")
    + Measurement(feat, "up_unknown") + Measurement(feat, "down_small")
    + Measurement(feat, "down_large") + Measurement(feat, "down_unknown")

RECURSIVE SumOfPoints(_, _)
SumOfPoints(feats, k) ==
    IF k > Len(feats) THEN 0
    ELSE SixCategories(feats[k]) + SumOfPoints(feats, k + 1)

\* C14: the aggregation over the points of a response gives the sum of the
\* six categories of every point, a missing or null category counting as
\* zero without an error, and the number of points.
C14_MissingOrNullIsZero ==
    (/\ pc \notin {"sleep", "aggregate"}
     /\ munistate[1] \notin Skipped
     /\ \A k \in 1..Len(data.features) : data.features[k].hasProps) =>
        /\ pc = "loop"
        /\ Len(results) = 1
        /\ results[1].traffic_volume = SumOfPoints(data.features, 1)
        /\ results[1].points = Len(data.features)

Perms(n) ==
    {p \in [1..n -> 1..n] : \A a, b \in 1..n : a # b => p[a] # p[b]}

\* C15: the total and the count main records for a response are those of the
\* aggregation loop on every permutation of the response's points.
C15_OrderIndependent ==
    (pc = "loop" /\ munistate[1] = "Aggregated") =>
        \A p \in Perms(Len(data.features)) :
            LET q == [k \in 1..Len(data.features) |-> data.features[p[k]]]
            IN  /\ results[1].traffic_volume = TotalFrom(q, 1)
                /\ results[1].points = Len(q)

C15_Witness ==
    /\ pc = "loop"
    /\ munistate[1] = "Aggregated"
    /\ data.features = <<FeatOut, FeatFull, FeatIn>>
    /\ results[1].traffic_volume = 61
    /\ results[1].points = 3

\* C16: every row that was skipped has an event in the log that shows the
\* code of its municipality.
C16_SkipsAreLogged ==
    \A r \in 1..Len(gdf.rows) :
        munistate[r] \in Skipped =>
            \E k \in 1..Len(log) : log[k].muni = gdf.rows[r].vals[code_col]

Terminated == pc \in {"done", "exited"}

\* C17: the run never issues more than N * MAX_RETRY requests for a dataset
\* of N rows, a run that reaches the end of the loop has issued at least N,
\* and every run terminates.
C17_TerminatesWithinBudget ==
    /\ [](requests <= Len(gdf.rows) * MAX_RETRY)
    /\ []((pc = "done" \/ exc = "SystemExit:no_results") =>
                requests >= Len(gdf.rows))
    /\ <>Terminated

C17_Witness ==
    /\ exc = "SystemExit:no_results"
    /\ Len(gdf.rows) = 2
    /\ requests = 2 * MAX_RETRY

====
